---- MODULE Spec2Model ----
(***************************************************************************)
(* A model of csim.c, the cache simulator of Cache Lab part A: one run of  *)
(* main() from the command line to the exit status.                        *)
(*                                                                         *)
(* uint64_t values are modelled as the set of their one-bits (a subset of  *)
(* 0..63), so that shifts, masks and wrap-around keep their 64-bit width.  *)
(* C strings are sequences of one-character strings.  The heap of          *)
(* CacheLine nodes is a function from addresses to cells; NULL is 0.       *)
(***************************************************************************)
EXTENDS Integers, Sequences, FiniteSets, TLC

(***************************************************************************)
(* Bounds of the exploration.                                              *)
(***************************************************************************)
\* the number of lines fgets may return in one run
MaxRecords == 3
\* the number of CacheLine cells of the heap
MaxLines == 4
\* the number of lines fgets may return in a run on one set
MaxPairRecords == 5

(***************************************************************************)
(* Program constants.                                                      *)
(***************************************************************************)
BUFFER_SIZE == 100
\* the width of uint64_t
WORD == 64
\* sizeof(CacheSet) on LP64: int size, padding, two pointers
SizeofCacheSet == 24
\* the sizes of the two sscanf buffers, char tmp1[2] and char tmp2[20]
Tmp1Size == 2
Tmp2Size == 20

NULL == 0
\* an indeterminate pointer value (memory returned by malloc is not cleared)
Uninit == -1

(***************************************************************************)
(* Characters.                                                             *)
(***************************************************************************)
NL == "\n"

Ascii ==
    ("0" :> 48) @@ ("1" :> 49) @@ ("2" :> 50) @@ ("3" :> 51) @@ ("4" :> 52) @@
    ("5" :> 53) @@ ("6" :> 54) @@ ("7" :> 55) @@ ("8" :> 56) @@ ("9" :> 57) @@
    ("a" :> 97) @@ ("b" :> 98) @@ ("c" :> 99) @@ ("d" :> 100) @@ ("e" :> 101) @@
    ("f" :> 102) @@ ("g" :> 103) @@ ("z" :> 122) @@ ("x" :> 120) @@
    ("A" :> 65) @@ ("B" :> 66) @@ ("C" :> 67) @@ ("D" :> 68) @@ ("E" :> 69) @@
    ("F" :> 70) @@ ("I" :> 73) @@ ("L" :> 76) @@ ("M" :> 77) @@ ("S" :> 83) @@
    (" " :> 32) @@ ("," :> 44) @@ ("-" :> 45) @@ ("+" :> 43) @@ (NL :> 10)

isspace(c) == Ascii[c] \in {32, 9, 10, 11, 12, 13}

isdigit(c) == Ascii[c] >= 48 /\ Ascii[c] <= 57

(***************************************************************************)
(* 64-bit unsigned arithmetic on sets of bit positions.                    *)
(***************************************************************************)
Bits == 0 .. (WORD - 1)

Pow2(n) == 2 ^ n

\* the bits of a small non-negative int
NatBits(n) == { j \in 0 .. 30 : (n \div Pow2(j)) % 2 = 1 }

\* conversion of an int to uint64_t: two's complement for negative values
ToU64(n) == IF n >= 0 THEN NatBits(n) ELSE Bits \ NatBits(-n - 1)

\* a << k and a >> k for 0 <= k < 64
Shl(a, k) == { j + k : j \in { x \in a : x + k < WORD } }

Shr(a, k) == { j - k : j \in { x \in a : x >= k } }

\* the carry into bit j of a + b: some lower bit generates one (it is set in
\* both operands) and every bit between propagates it (it is set in one)
Carry(a, b, j) ==
    \E k \in a \cap b :
        /\ k < j
        /\ \A m \in (k + 1) .. (j - 1) : m \in a \/ m \in b

\* a + b modulo 2^64
Add64(a, b) ==
    { j \in Bits : ((j \in a) # (j \in b)) # Carry(a, b, j) }

\* the sum of b << j over the one-bits j of a, modulo 2^64
RECURSIVE MulBits(_, _)
MulBits(a, b) ==
    IF a = {} THEN {}
    ELSE LET j == CHOOSE x \in a : TRUE
         IN  Add64(Shl(b, j), MulBits(a \ {j}, b))

\* a * b modulo 2^64, summing over the operand with fewer one-bits
Mul64(a, b) ==
    IF Cardinality(a) <= Cardinality(b) THEN MulBits(a, b) ELSE MulBits(b, a)

\* the value of a uint64_t that fits an int
RECURSIVE SumPow(_)
SumPow(a) == IF a = {} THEN 0
             ELSE LET j == CHOOSE x \in a : TRUE IN Pow2(j) + SumPow(a \ {j})

ToInt(a) == SumPow(a)

(***************************************************************************)
(* Strings.                                                                *)
(***************************************************************************)
Min(a, b) == IF a < b THEN a ELSE b

\* n spaces
Pad(n) == [k \in 1 .. n |-> " "]

IsPrefix(s, f) == Len(s) <= Len(f) /\ SubSeq(f, 1, Len(s)) = s

\* the first position >= p of s that holds no white space (Len(s)+1 if none)
RECURSIVE SkipSpace(_, _)
SkipSpace(s, p) ==
    IF p > Len(s) THEN p
    ELSE IF isspace(s[p]) THEN SkipSpace(s, p + 1) ELSE p

\* the first position >= p of s that holds white space (Len(s)+1 if none)
RECURSIVE SkipToken(_, _)
SkipToken(s, p) ==
    IF p > Len(s) THEN p
    ELSE IF isspace(s[p]) THEN p ELSE SkipToken(s, p + 1)

\* the first position >= p of s that holds a comma (Len(s)+1 if none)
RECURSIVE SkipToComma(_, _)
SkipToComma(s, p) ==
    IF p > Len(s) THEN p
    ELSE IF s[p] = "," THEN p ELSE SkipToComma(s, p + 1)

\* the first position >= p of s that holds no digit (Len(s)+1 if none)
RECURSIVE SkipDigits(_, _)
SkipDigits(s, p) ==
    IF p > Len(s) THEN p
    ELSE IF isdigit(s[p]) THEN SkipDigits(s, p + 1) ELSE p

RECURSIVE DecimalValue(_)
DecimalValue(s) ==
    IF s = <<>> THEN 0
    ELSE 10 * DecimalValue(SubSeq(s, 1, Len(s) - 1)) + (Ascii[s[Len(s)]] - 48)

\* atoi: white space, an optional sign, then the longest run of digits
atoi(s) ==
    LET p == SkipSpace(s, 1)
        neg == p <= Len(s) /\ s[p] = "-"
        q == IF p <= Len(s) /\ s[p] \in {"-", "+"} THEN p + 1 ELSE p
        r == SkipDigits(s, q)
        v == DecimalValue(SubSeq(s, q, r - 1))
    IN  IF neg THEN -v ELSE v

\* sscanf(trace_line, "%s %[^,]s,%*s", tmp1, tmp2): the number of
\* conversions stored, and the strings stored in tmp1 and tmp2 (without
\* their terminating NUL).  The literal s after the scanset never matches
\* (the scanset stops at a comma or at the end), so the scan ends there.
sscanf(trace_line) ==
    LET p1 == SkipSpace(trace_line, 1)
        p2 == SkipToken(trace_line, p1)
        p3 == SkipSpace(trace_line, p2)
        p4 == SkipToComma(trace_line, p3)
    IN  IF p1 > Len(trace_line) THEN [n |-> 0, tmp1 |-> <<>>, tmp2 |-> <<>>]
        ELSE IF p4 = p3 THEN
            [n |-> 1, tmp1 |-> SubSeq(trace_line, p1, p2 - 1), tmp2 |-> <<>>]
        ELSE
            [n |-> 2, tmp1 |-> SubSeq(trace_line, p1, p2 - 1),
             tmp2 |-> SubSeq(trace_line, p3, p4 - 1)]

convert_hex_digit(digit) ==
    IF Ascii[digit] >= Ascii["0"] /\ Ascii[digit] <= Ascii["9"]
        THEN Ascii[digit] - Ascii["0"]
    ELSE IF Ascii[digit] >= Ascii["a"] /\ Ascii[digit] <= Ascii["f"]
        THEN Ascii[digit] - Ascii["a"] + 10
    ELSE IF Ascii[digit] >= Ascii["A"] /\ Ascii[digit] <= Ascii["F"]
        THEN Ascii[digit] - Ascii["A"] + 10
    ELSE -1

\* the loop of convert_hex_string from iteration i on, res being the sum so
\* far; d * 1 << (4*i) parses as (d * 1) << (4*i) on uint64_t
RECURSIVE HexLoop(_, _, _)
HexLoop(string, i, res) ==
    IF i >= Len(string) THEN res
    ELSE LET d == ToU64(convert_hex_digit(string[Len(string) - i]))
         IN  HexLoop(string, i + 1, Add64(res, Shl(Mul64(d, ToU64(1)), 4 * i)))

convert_hex_string(string) == HexLoop(string, 0, {})

(***************************************************************************)
(* Inputs: the command line and the lines of the trace file.               *)
(***************************************************************************)
\* an option that is not on the command line
Absent == <<"absent">>

\* the arguments given to -s, -E and -b
SArgs ==
    { Absent, <<"-", "1">>, <<"0">>, <<"1">>, <<"2">>, <<"6", "0">>, <<"6", "3">>,
      <<"6", "4">> }

EArgs == { Absent, <<"0">>, <<"1">>, <<"2">>, <<"x">> }

BArgs == { Absent, <<"0">>, <<"1">>, <<"4">>, <<"6", "3">>, <<"6", "4">> }

\* "<op> <hexaddress>,<size>\n"
Line(op, addr) == <<op, " ">> \o addr \o <<",", "1", NL>>

\* a newline-terminated line of n characters holding the record op addr
PaddedLine(op, addr, n) ==
    <<op, " ">> \o addr \o <<",", "1">> \o Pad(n - Len(addr) - 5) \o <<NL>>

\* trace lines that are framed as fgets expects and hold an operation and a
\* hexadecimal address
GoodLines ==
    { Line("L", <<"0">>), Line("S", <<"2">>), Line("L", <<"1", "0">>),
      PaddedLine("S", <<"2", "0">>, BUFFER_SIZE - 1), Line("L", <<"4", "0">>),
      Line("M", <<"a", "b", "c">>), Line("M", <<"0">>), Line("I", <<"1", "0">>) }

\* an address that is not hexadecimal, and a record without an address
BadAddressLines == { Line("L", <<"1", "g">>), <<"L", NL>> }

\* a last line without its newline, and lines of BUFFER_SIZE characters and more
BadFramingLines ==
    { <<"L", " ", "0", ",", "1">>,
      PaddedLine("L", <<"0">>, BUFFER_SIZE),
      PaddedLine("L", <<"0">>, BUFFER_SIZE + 1) }

Lines == GoodLines \cup BadAddressLines \cup BadFramingLines

\* what an uninitialised tmp2 may hold
GarbageStrings == { <<"1", "0">>, <<"f", "f">> }

\* a line that passes the framing test and whose address field of 64
\* characters does not fit tmp2
OverlongLines == { Line("L", [k \in 1 .. 62 |-> "0"] \o <<"1", "0">>) }

\* records of four lines that -s 1 -b 1 maps to set 0
PairLines ==
    { Line("L", <<"0">>), Line("L", <<"1", "0">>), Line("L", <<"4", "0">>),
      Line("M", <<"a", "b", "c">>) }

(***************************************************************************)
(* The state of one run.                                                   *)
(***************************************************************************)
VARIABLES
    pc,                \* the position of main
    set_bit_count, lines_per_set, offset_bit_count,
    t,                 \* TRUE when main's t is not NULL
    set_count,
    cache,             \* the global cache: the block it points to
    heap,              \* the CacheLine cells
    hits, misses, evictions,
    status,            \* the exit status of the process, Running before
    out,               \* the lines printed on standard output
    trace,             \* the lines fgets has returned
    operation, tag, curr_set,   \* locals of simulate_operation
    calls,             \* calls of simulate_single_access still to make
    line,              \* new_line or match in simulate_single_access
    failed,            \* history: the allocation that returned NULL, if any
    rec,               \* history: the counters when the record began
    acc                \* history: the set and counters when the access began

vars == << pc, set_bit_count, lines_per_set, offset_bit_count, t, set_count,
           cache, heap, hits, misses, evictions, status, out, trace,
           operation, tag, curr_set, calls, line, failed, rec, acc >>

config == << set_bit_count, lines_per_set, offset_bit_count, t, set_count >>
counters == << hits, misses, evictions >>
locals == << operation, tag, curr_set, calls, line, failed >>

Running == -1
\* the status of a process killed by SIGSEGV, as a shell reports it
Signalled == 139

Nodes == 1 .. MaxLines

FreeCell == [live |-> FALSE, tag |-> {}, prev |-> Uninit, next |-> Uninit]

\* a printed line is a tuple: the text of a diagnostic, or the pieces of the
\* summary
Summary(h, m, e) == <<"hits:", h, " misses:", m, " evictions:", e>>

\* the global cache before initialize, and after free(cache)
NoCache == [p |-> "null", sets |-> <<>>]

FreedCache == [p |-> "freed", sets |-> <<>>]

NoSnapshot ==
    [valid |-> FALSE, tags |-> <<>>, found |-> FALSE,
     hits |-> 0, misses |-> 0, evictions |-> 0]

Init ==
    /\ pc = "getopt"
    /\ set_bit_count = 0
    /\ lines_per_set = 0
    /\ offset_bit_count = 0
    /\ t = FALSE
    /\ set_count = {}
    /\ cache = NoCache
    /\ heap = [n \in {NULL} \cup Nodes |-> FreeCell]
    /\ hits = 0
    /\ misses = 0
    /\ evictions = 0
    /\ status = Running
    /\ out = <<>>
    /\ trace = <<>>
    /\ operation = " "
    /\ tag = {}
    /\ curr_set = 0
    /\ calls = 0
    /\ line = NULL
    /\ failed = "none"
    /\ rec = NoSnapshot
    /\ acc = NoSnapshot

(***************************************************************************)
(* The list of a CacheSet: find, evict, push, and the allocator.           *)
(***************************************************************************)
RECURSIVE FindFrom(_, _, _)
FindFrom(h, l, tg) ==
    IF l = NULL THEN NULL
    ELSE IF h[l].tag = tg THEN l
    ELSE FindFrom(h, h[l].next, tg)

\* find that looks at the lru line only
find_FirstOnly(h, set, tg) ==
    IF set.lru # NULL /\ h[set.lru].tag = tg THEN set.lru ELSE NULL

find(h, set, tg) == FindFrom(h, set.lru, tg)

\* evict that leaves the prev pointer of the following line as it was
evict_StalePrev(h, set, ln) ==
    LET lru1 == IF set.lru = ln THEN h[ln].next ELSE set.lru
        mru1 == IF set.mru = ln THEN h[ln].prev ELSE set.mru
        h1 == IF h[ln].prev # NULL
              THEN [h EXCEPT ![h[ln].prev].next = h[ln].next] ELSE h
    IN  [heap |-> h1, set |-> [size |-> set.size - 1, lru |-> lru1, mru |-> mru1]]

\* unlinks ln from set; does not free it
evict(h, set, ln) ==
    LET lru1 == IF set.lru = ln THEN h[ln].next ELSE set.lru
        mru1 == IF set.mru = ln THEN h[ln].prev ELSE set.mru
        h1 == IF h[ln].prev # NULL
              THEN [h EXCEPT ![h[ln].prev].next = h[ln].next] ELSE h
        h2 == IF h1[ln].next # NULL
              THEN [h1 EXCEPT ![h1[ln].next].prev = h1[ln].prev] ELSE h1
    IN  [heap |-> h2, set |-> [size |-> set.size - 1, lru |-> lru1, mru |-> mru1]]

\* push that links a line that was in the list back between the lines that
\* were its neighbours
push_BackInPlace(h, set, ln) ==
    IF set.mru = NULL
    THEN [heap |-> [h EXCEPT ![ln].prev = NULL, ![ln].next = NULL],
          set |-> [size |-> set.size + 1, lru |-> ln, mru |-> ln]]
    ELSE IF h[ln].prev = Uninit
    THEN LET h1 == [h EXCEPT ![set.mru].next = ln]
             h2 == [h1 EXCEPT ![ln].prev = set.mru]
             h3 == [h2 EXCEPT ![ln].next = NULL]
         IN  [heap |-> h3, set |-> [size |-> set.size + 1, lru |-> set.lru, mru |-> ln]]
    ELSE LET h1 == IF h[ln].prev # NULL THEN [h EXCEPT ![h[ln].prev].next = ln] ELSE h
             h2 == IF h[ln].next # NULL THEN [h1 EXCEPT ![h[ln].next].prev = ln] ELSE h1
         IN  [heap |-> h2,
              set |-> [size |-> set.size + 1,
                       lru |-> IF h[ln].prev = NULL THEN ln ELSE set.lru,
                       mru |-> IF h[ln].next = NULL THEN ln ELSE set.mru]]

\* push that links ln before the lru of set
push_Front(h, set, ln) ==
    IF set.mru = NULL
    THEN [heap |-> [h EXCEPT ![ln].prev = NULL, ![ln].next = NULL],
          set |-> [size |-> set.size + 1, lru |-> ln, mru |-> ln]]
    ELSE LET h1 == [h EXCEPT ![set.lru].prev = ln]
             h2 == [h1 EXCEPT ![ln].next = set.lru]
             h3 == [h2 EXCEPT ![ln].prev = NULL]
         IN  [heap |-> h3, set |-> [size |-> set.size + 1, lru |-> ln, mru |-> set.mru]]

\* links ln after the mru of set; overwrites ln's prev and next
push(h, set, ln) ==
    IF set.mru = NULL
    THEN [heap |-> [h EXCEPT ![ln].prev = NULL, ![ln].next = NULL],
          set |-> [size |-> set.size + 1, lru |-> ln, mru |-> ln]]
    ELSE LET h1 == [h EXCEPT ![set.mru].next = ln]
             h2 == [h1 EXCEPT ![ln].prev = set.mru]
             h3 == [h2 EXCEPT ![ln].next = NULL]
         IN  [heap |-> h3, set |-> [size |-> set.size + 1, lru |-> set.lru, mru |-> ln]]

\* malloc(sizeof(CacheLine)): the lowest free cell, its contents indeterminate
malloc(h) ==
    IF \A n \in Nodes : h[n].live THEN NULL
    ELSE CHOOSE n \in Nodes : ~h[n].live /\ \A m \in Nodes : m < n => h[m].live

\* free that releases nothing
free_Leak(h, p) == h

free(h, p) == IF p = NULL THEN h ELSE [h EXCEPT ![p] = FreeCell]

\* FreeFrom that frees the first line of the list only
FreeFrom_HeadOnly(h, cl) == free(h, cl)

\* the loop of cleanup over one list
RECURSIVE FreeFrom(_, _)
FreeFrom(h, cl) ==
    IF cl = NULL THEN h ELSE FreeFrom(free(h, cl), h[cl].next)

\* the loop of cleanup over the sets i .. set_count - 1
RECURSIVE CleanupFrom(_, _, _)
CleanupFrom(h, sets, i) ==
    IF i \notin DOMAIN sets THEN h
    ELSE CleanupFrom(FreeFrom(h, sets[i].lru), sets, i + 1)

cleanup(h, c) == CleanupFrom(h, c.sets, 0)

\* the lines linked in set, from lru along next (at most fuel of them)
RECURSIVE ChainFrom(_, _, _)
ChainFrom(h, l, fuel) ==
    IF l = NULL \/ fuel = 0 THEN <<>>
    ELSE <<l>> \o ChainFrom(h, h[l].next, fuel - 1)

Chain(h, set) == ChainFrom(h, set.lru, Cardinality(DOMAIN h))

TagsOf(h, set) == [k \in 1 .. Len(Chain(h, set)) |-> h[Chain(h, set)[k]].tag]

(***************************************************************************)
(* main: command line, validation, fopen, initialize.                      *)
(***************************************************************************)
\* the getopt loop: each option that is present is converted with atoi
getopt ==
    /\ pc = "getopt"
    /\ \E sa \in SArgs, ea \in EArgs, ba \in BArgs, tpath \in BOOLEAN :
        /\ set_bit_count' = (IF sa = Absent THEN set_bit_count ELSE atoi(sa))
        /\ lines_per_set' = (IF ea = Absent THEN lines_per_set ELSE atoi(ea))
        /\ offset_bit_count' = (IF ba = Absent THEN offset_bit_count ELSE atoi(ba))
        /\ t' = tpath
    /\ pc' = "validate"
    /\ UNCHANGED << set_count, cache, heap, counters, status, out, trace,
                    locals, rec, acc >>

\* BadArguments with the lower limit of s off by one
BadArguments_OffByOne(s, E, b, tp) ==
    \/ (s < 0 \/ E <= 0 \/ b <= 0 \/ ~tp)
    \/ (s >= 64 \/ b >= 64)

\* the two tests of main that print "Bad arguments"
BadArguments(s, E, b, tp) ==
    \/ (s <= 0 \/ E <= 0 \/ b <= 0 \/ ~tp)
    \/ (s >= 64 \/ b >= 64)

validate ==
    /\ pc = "validate"
    /\ IF BadArguments(set_bit_count, lines_per_set, offset_bit_count, t)
       THEN /\ out' = Append(out, <<"Bad arguments">>)
            /\ status' = 1
            /\ pc' = "exit"
            /\ UNCHANGED set_count
       ELSE /\ set_count' = Shl(ToU64(1), set_bit_count)
            /\ pc' = "fopen"
            /\ UNCHANGED << out, status >>
    /\ UNCHANGED << set_bit_count, lines_per_set, offset_bit_count, t,
                    cache, heap, counters, trace, locals, rec, acc >>

\* fopen(t, "r"): the file may not be readable
fopen ==
    /\ pc = "fopen"
    /\ \E readable \in BOOLEAN :
        IF readable
        THEN pc' = "initialize" /\ UNCHANGED << out, status >>
        ELSE /\ out' = Append(out, <<"Bad file">>)
             /\ status' = 1
             /\ pc' = "exit"
    /\ UNCHANGED << config, cache, heap, counters, trace, locals, rec, acc >>

\* a / b for b a power of two
Div64Pow2(a, b) == Shr(a, CHOOSE j \in b : TRUE)

bytes_to_allocate(sc) == Mul64(ToU64(SizeofCacheSet), sc)

\* Overflow that only recognises a product that wrapped to 0
Overflow_ZeroOnly(sc) == bytes_to_allocate(sc) = {}

\* the overflow test of initialize
Overflow(sc) == Div64Pow2(bytes_to_allocate(sc), sc) # ToU64(SizeofCacheSet)

\* the block initialize allocates and clears
ZeroedSets(sc) ==
    [p |-> "live",
     sets |-> [i \in 0 .. (ToInt(sc) - 1) |-> [size |-> 0, lru |-> NULL, mru |-> NULL]]]

initialize ==
    /\ pc = "initialize"
    /\ IF Overflow(set_count)
       THEN /\ out' = Append(out, <<"Bad initialize">>)
            /\ status' = 1
            /\ pc' = "exit"
            /\ UNCHANGED cache
       ELSE /\ cache' = ZeroedSets(set_count)
            /\ pc' = "fgets"
            /\ UNCHANGED << out, status >>
    /\ UNCHANGED << config, heap, counters, trace, locals, rec, acc >>

(***************************************************************************)
(* main: the replay loop.                                                  *)
(***************************************************************************)
\* what fgets(trace_line, BUFFER_SIZE, file) stores for the physical line l
fgets(l) == SubSeq(l, 1, Min(Len(l), BUFFER_SIZE - 1))

\* BadInput without the test of the last character
BadInput_NoNewlineTest(trace_line) == Len(trace_line) = 0

\* the framing test of main on what fgets stored
BadInput(trace_line) ==
    Len(trace_line) = 0 \/ trace_line[Len(trace_line)] # NL

\* the line simulate_operation is working on
trace_line == fgets(trace[Len(trace)])

\* sscanf stores an operation, and the strings it stores fit tmp1 and tmp2
\* with their terminating NUL
FitsBuffers(l) ==
    /\ sscanf(fgets(l)).n >= 1
    /\ Len(sscanf(fgets(l)).tmp1) < Tmp1Size
    /\ Len(sscanf(fgets(l)).tmp2) < Tmp2Size

\* the lines of the input whose fields sscanf stores within the buffers
ReadableLines == { l \in Lines : FitsBuffers(l) }

\* fgets returns a line: it is rejected, or handed to simulate_operation
read_line ==
    /\ pc = "fgets"
    /\ Len(trace) < MaxRecords
    /\ \E l \in ReadableLines :
        /\ trace' = Append(trace, l)
        /\ IF BadInput(fgets(l))
           THEN /\ out' = Append(out, <<"Bad input">>)
                /\ heap' = cleanup(heap, cache)
                /\ cache' = FreedCache
                /\ status' = 1
                /\ pc' = "exit"
           ELSE /\ pc' = "simulate_operation"
                /\ UNCHANGED << out, heap, cache, status >>
    /\ UNCHANGED << config, counters, locals, rec, acc >>

\* fgets returns NULL: cleanup, fclose, the summary, return 0
end_of_file ==
    /\ pc = "fgets"
    /\ heap' = cleanup(heap, cache)
    /\ cache' = FreedCache
    /\ out' = Append(out, Summary(hits, misses, evictions))
    /\ status' = 0
    /\ pc' = "exit"
    /\ UNCHANGED << config, counters, trace, locals, rec, acc >>

(***************************************************************************)
(* simulate_operation and simulate_single_access.                          *)
(***************************************************************************)
\* BlockAddress that keeps the offset bits
BlockAddress_NoShift(address, b) == address

\* address >>= offset_bit_count
BlockAddress(address, b) == Shr(address, b)

\* Mask shifted by one bit less
Mask_OneShort(s) == Shl(ToU64(-1), s - 1)

\* (uint64_t) ~0 << set_bit_count
Mask(s) == Shl(ToU64(-1), s)

TagOf(address, s, b) == BlockAddress(address, b) \cap Mask(s)

IndexOf(address, s, b) == ToInt(BlockAddress(address, b) \ Mask(s))

\* CallsOf with the case of S falling through to the case of M
CallsOf_StoreFallsThrough(op) ==
    IF op = "L" THEN 1 ELSE IF op \in {"S", "M"} THEN 2 ELSE 0

\* CallsOf with the default case making an access
CallsOf_DefaultAccess(op) == IF op = "M" THEN 2 ELSE 1

\* CallsOf treating M as a single access
CallsOf_SingleM(op) == IF op \in {"L", "S", "M"} THEN 1 ELSE 0

\* the number of simulate_single_access calls of the switch
CallsOf(op) == IF op \in {"L", "S"} THEN 1 ELSE IF op = "M" THEN 2 ELSE 0

\* the strings tmp2 may hold in a run
AddressStrings == { sscanf(fgets(l)).tmp2 : l \in ReadableLines } \cup GarbageStrings

\* convert_hex_string on each of them, computed once
Converted == [string \in AddressStrings |-> convert_hex_string(string)]

\* sscanf, convert_hex_string, the decoding of the address and the switch;
\* when sscanf stored no address, tmp2 keeps an indeterminate content
simulate_operation ==
    /\ pc = "simulate_operation"
    /\ LET r == sscanf(trace_line)
           op == r.tmp1[1]
       IN \E tmp2 \in (IF r.n = 2 THEN {r.tmp2} ELSE GarbageStrings) :
            LET address == Converted[tmp2]
                tg == TagOf(address, set_bit_count, offset_bit_count)
                i == IndexOf(address, set_bit_count, offset_bit_count)
            IN  /\ operation' = op
                /\ tag' = tg
                /\ curr_set' = i
                /\ calls' = CallsOf(op)
                /\ pc' = (IF CallsOf(op) > 0 THEN "simulate_single_access" ELSE "fgets")
                /\ rec' = [valid |-> TRUE, tags |-> TagsOf(heap, cache.sets[i]),
                           found |-> find(heap, cache.sets[i], tg) # NULL,
                           hits |-> hits, misses |-> misses, evictions |-> evictions]
    /\ line' = NULL
    /\ acc' = NoSnapshot
    /\ UNCHANGED << config, cache, heap, counters, status, out, trace, failed >>

\* the set and the counters as an access finds them
Snapshot(found) ==
    [valid |-> TRUE, tags |-> TagsOf(heap, cache.sets[curr_set]), found |-> found,
     hits |-> hits, misses |-> misses, evictions |-> evictions]

\* SetFull that never asks for an eviction
SetFull_NoEviction(set, E) == FALSE

\* SetFull with the comparison off by one
SetFull_OffByOne(set, E) == set.size > E

\* the test that decides an eviction
SetFull(set, E) == set.size >= E

\* find returns NULL: misses++, and the new line is allocated and tagged
access_miss ==
    /\ pc = "simulate_single_access"
    /\ find(heap, cache.sets[curr_set], tag) = NULL
    /\ misses' = misses + 1
    /\ LET new_line == malloc(heap)
       IN /\ new_line # NULL
          /\ heap' = [heap EXCEPT ![new_line] =
                        [live |-> TRUE, tag |-> tag, prev |-> Uninit, next |-> Uninit]]
          /\ line' = new_line
    /\ pc' = (IF SetFull(cache.sets[curr_set], lines_per_set) THEN "evict" ELSE "push")
    /\ acc' = Snapshot(FALSE)
    /\ UNCHANGED << config, cache, hits, evictions, status, out, trace,
                    operation, tag, curr_set, calls, failed, rec >>

\* Victim taking the most recently used line
Victim_MRU(set) == set.mru

\* the line an eviction removes
Victim(set) == set.lru

\* the set is full: evictions++, the lru line is unlinked and freed
eviction ==
    /\ pc = "evict"
    /\ evictions' = evictions + 1
    /\ LET evicted == Victim(cache.sets[curr_set])
           r == evict(heap, cache.sets[curr_set], evicted)
       IN /\ heap' = free(r.heap, evicted)
          /\ cache' = [cache EXCEPT !.sets[curr_set] = r.set]
    /\ pc' = "push"
    /\ UNCHANGED << config, hits, misses, status, out, trace, locals, rec, acc >>

\* find returns the line: hits++, and the line is unlinked
access_hit ==
    /\ pc = "simulate_single_access"
    /\ LET match == find(heap, cache.sets[curr_set], tag)
       IN /\ match # NULL
          /\ hits' = hits + 1
          /\ LET r == evict(heap, cache.sets[curr_set], match)
             IN /\ heap' = r.heap
                /\ cache' = [cache EXCEPT !.sets[curr_set] = r.set]
          /\ line' = match
    /\ pc' = "push"
    /\ acc' = Snapshot(TRUE)
    /\ UNCHANGED << config, misses, evictions, status, out, trace,
                    operation, tag, curr_set, calls, failed, rec >>

\* push of the new or the matched line; then the next call, or the next line
push_line ==
    /\ pc = "push"
    /\ LET r == push(heap, cache.sets[curr_set], line)
       IN /\ heap' = r.heap
          /\ cache' = [cache EXCEPT !.sets[curr_set] = r.set]
    /\ calls' = calls - 1
    /\ pc' = (IF calls > 1 THEN "simulate_single_access" ELSE "fgets")
    /\ UNCHANGED << config, counters, status, out, trace,
                    operation, tag, curr_set, line, failed, rec, acc >>

Next ==
    \/ getopt
    \/ validate
    \/ fopen
    \/ initialize
    \/ read_line
    \/ end_of_file
    \/ simulate_operation
    \/ access_miss
    \/ eviction
    \/ access_hit
    \/ push_line

Spec == Init /\ [][Next]_vars

(***************************************************************************)
(* Runs in which malloc may return NULL, or a line of the file overflows   *)
(* a buffer of simulate_operation.  The stores through a NULL pointer are  *)
(* undefined: the process is killed by the trap, or the store lands at     *)
(* address 0 and the run goes on.  At most one of these events happens in  *)
(* a run.                                                                  *)
(***************************************************************************)
\* t = malloc(strlen(optarg)) returns NULL and memcpy stores through it
getopt_nomem ==
    /\ pc = "getopt"
    /\ failed = "none"
    /\ \E sa \in SArgs, ea \in EArgs, ba \in BArgs :
        /\ set_bit_count' = (IF sa = Absent THEN set_bit_count ELSE atoi(sa))
        /\ lines_per_set' = (IF ea = Absent THEN lines_per_set ELSE atoi(ea))
        /\ offset_bit_count' = (IF ba = Absent THEN offset_bit_count ELSE atoi(ba))
    /\ t' = FALSE
    /\ failed' = "t"
    /\ \E traps \in BOOLEAN :
        IF traps
        THEN status' = Signalled /\ pc' = "exit"
        ELSE status' = status /\ pc' = "validate"
    /\ UNCHANGED << set_count, cache, heap, counters, out, trace,
                    operation, tag, curr_set, calls, line, rec, acc >>

\* cache = malloc(bytes_to_allocate) returns NULL: initialize returns 1
initialize_nomem ==
    /\ pc = "initialize"
    /\ ~Overflow(set_count)
    /\ failed = "none"
    /\ failed' = "cache"
    /\ out' = Append(out, <<"Bad initialize">>)
    /\ status' = 1
    /\ pc' = "exit"
    /\ UNCHANGED << config, cache, heap, counters, trace,
                    operation, tag, curr_set, calls, line, rec, acc >>

\* new_line = malloc(sizeof(CacheLine)) returns NULL and is not tested:
\* new_line->tag = tag stores through it
access_miss_nomem ==
    /\ pc = "simulate_single_access"
    /\ find(heap, cache.sets[curr_set], tag) = NULL
    /\ misses' = misses + 1
    /\ failed = "none"
    /\ failed' = "line"
    /\ acc' = Snapshot(FALSE)
    /\ \E traps \in BOOLEAN :
        IF traps
        THEN /\ status' = Signalled
             /\ pc' = "exit"
             /\ UNCHANGED << heap, line >>
        ELSE /\ heap' = [heap EXCEPT ![NULL].tag = tag]
             /\ line' = NULL
             /\ pc' = (IF SetFull(cache.sets[curr_set], lines_per_set)
                       THEN "evict" ELSE "push")
             /\ UNCHANGED status
    /\ UNCHANGED << config, cache, hits, evictions, out, trace,
                    operation, tag, curr_set, calls, rec >>

\* fgets returns a line whose address field is longer than tmp2: sscanf
\* stores past the end of the array, over tmp1 and the rest of the frame.
\* The process is killed, or simulate_operation goes on with what it finds
\* in the overwritten arrays: a character of the address as the operation.
sscanf_overflow ==
    /\ pc = "fgets"
    /\ Len(trace) < MaxRecords
    /\ failed = "none"
    /\ failed' = "tmp2"
    /\ \E l \in OverlongLines :
        /\ ~BadInput(fgets(l))
        /\ Len(sscanf(fgets(l)).tmp2) >= Tmp2Size
        /\ trace' = Append(trace, l)
    /\ \E traps \in BOOLEAN :
        IF traps
        THEN /\ status' = Signalled
             /\ pc' = "exit"
             /\ UNCHANGED << operation, tag, curr_set, calls, rec >>
        ELSE \E op \in {"0"}, tmp2 \in GarbageStrings :
                LET address == Converted[tmp2]
                    tg == TagOf(address, set_bit_count, offset_bit_count)
                    i == IndexOf(address, set_bit_count, offset_bit_count)
                IN  /\ operation' = op
                    /\ tag' = tg
                    /\ curr_set' = i
                    /\ calls' = CallsOf(op)
                    /\ pc' = (IF CallsOf(op) > 0 THEN "simulate_single_access" ELSE "fgets")
                    /\ rec' = [valid |-> TRUE, tags |-> TagsOf(heap, cache.sets[i]),
                               found |-> find(heap, cache.sets[i], tg) # NULL,
                               hits |-> hits, misses |-> misses, evictions |-> evictions]
                    /\ UNCHANGED status
    /\ line' = NULL
    /\ acc' = NoSnapshot
    /\ UNCHANGED << config, cache, heap, counters, out >>

NextAlloc ==
    \/ Next
    \/ getopt_nomem
    \/ initialize_nomem
    \/ access_miss_nomem
    \/ sscanf_overflow

SpecAlloc == Init /\ [][NextAlloc]_vars

(***************************************************************************)
(* Runs of -s 1 -E 1 or 2 -b 1 on longer traces that stay in one set,      *)
(* from the state initialize leaves.                                       *)
(***************************************************************************)
InitPair ==
    /\ pc = "fgets"
    /\ set_bit_count = 1
    /\ lines_per_set \in {1, 2}
    /\ offset_bit_count = 1
    /\ t = TRUE
    /\ set_count = Shl(ToU64(1), 1)
    /\ cache = ZeroedSets(Shl(ToU64(1), 1))
    /\ heap = [n \in {NULL} \cup Nodes |-> FreeCell]
    /\ hits = 0
    /\ misses = 0
    /\ evictions = 0
    /\ status = Running
    /\ out = <<>>
    /\ trace = <<>>
    /\ operation = " "
    /\ tag = {}
    /\ curr_set = 0
    /\ calls = 0
    /\ line = NULL
    /\ failed = "none"
    /\ rec = NoSnapshot
    /\ acc = NoSnapshot

\* fgets returns one of the lines of PairLines, which pass the framing test
read_pair ==
    /\ pc = "fgets"
    /\ Len(trace) < MaxPairRecords
    /\ \E l \in PairLines :
        /\ ~BadInput(fgets(l))
        /\ trace' = Append(trace, l)
    /\ pc' = "simulate_operation"
    /\ UNCHANGED << config, cache, heap, counters, status, out, locals, rec, acc >>

NextPair ==
    \/ read_pair
    \/ end_of_file
    \/ simulate_operation
    \/ access_miss
    \/ eviction
    \/ access_hit
    \/ push_line

SpecPair == InitPair /\ [][NextPair]_vars

(***************************************************************************)
(* Vocabulary of the properties.                                           *)
(***************************************************************************)
Live == cache.p = "live"

SetIds == DOMAIN cache.sets

Last(q) == q[Len(q)]

\* no access is in progress: the previous one, if any, is complete
AccessDone ==
    /\ Live
    /\ acc.valid
    /\ pc \in {"fgets", "simulate_operation", "simulate_single_access"}

\* the sequence q without its entries equal to x
RECURSIVE Without(_, _)
Without(q, x) ==
    IF q = <<>> THEN <<>>
    ELSE (IF Head(q) = x THEN <<>> ELSE <<Head(q)>>) \o Without(Tail(q), x)

HexChars ==
    { "0", "1", "2", "3", "4", "5", "6", "7", "8", "9",
      "a", "b", "c", "d", "e", "f", "A", "B", "C", "D", "E", "F" }

\* the physical line l is newline-terminated and fits the buffer
WellFramed(l) == Len(l) > 0 /\ Last(l) = NL /\ Len(l) <= BUFFER_SIZE

\* l holds an operation and a hexadecimal address
HasHexAddress(l) ==
    /\ sscanf(fgets(l)).n = 2
    /\ \A k \in DOMAIN sscanf(fgets(l)).tmp2 : sscanf(fgets(l)).tmp2[k] \in HexChars

OpOfLine(l) == sscanf(fgets(l)).tmp1[1]

AddressOfLine(l) == Converted[sscanf(fgets(l)).tmp2]

TagOfLine(l) == TagOf(AddressOfLine(l), set_bit_count, offset_bit_count)

IndexOfLine(l) == IndexOf(AddressOfLine(l), set_bit_count, offset_bit_count)

Diagnostics == { <<"Bad arguments">>, <<"Bad file">>, <<"Bad initialize">>, <<"Bad input">> }

\* nothing but diagnostics has been printed
NoSummary == \A j \in 1 .. Len(out) : out[j] \in Diagnostics

\* the run has ended and the file it ran on may have been f
RunOn(f) ==
    /\ pc = "exit"
    /\ IsPrefix(trace, f)
    /\ status = 0 => trace = f

(***************************************************************************)
(* C1. Capacity: while the cache exists, in every state, between the evict *)
(* and the push of an access too, each set links at most lines_per_set     *)
(* lines and its size field is the number of lines linked in it.           *)
(***************************************************************************)
CapacityInvariant ==
    Live =>
        \A i \in SetIds :
            /\ Len(Chain(heap, cache.sets[i])) <= lines_per_set
            /\ cache.sets[i].size = Len(Chain(heap, cache.sets[i]))

\* between the evict and the push of a miss in a full set of two lines
CapacityWitness ==
    /\ pc = "push"
    /\ ~acc.found
    /\ lines_per_set = 2
    /\ Len(acc.tags) = 2
    /\ cache.sets[curr_set].size = 1

(***************************************************************************)
(* C2. Tag uniqueness: while the cache exists, in every state, no set      *)
(* links two lines with the same tag.                                      *)
(***************************************************************************)
TagUniqueness ==
    Live =>
        \A i \in SetIds :
            \A j, k \in 1 .. Len(Chain(heap, cache.sets[i])) :
                j # k => TagsOf(heap, cache.sets[i])[j] # TagsOf(heap, cache.sets[i])[k]

\* a hit on the most recent of two lines has been replayed
TagUniquenessWitness ==
    /\ AccessDone
    /\ acc.found
    /\ Len(acc.tags) = 2
    /\ acc.tags[2] = tag
    /\ Len(TagsOf(heap, cache.sets[curr_set])) = 2

(***************************************************************************)
(* C3. Exact LRU: when the k records replayed so far are loads and stores  *)
(* of pairwise distinct tags of one set and k > lines_per_set, that set    *)
(* holds exactly the lines_per_set most recent tags, oldest first, and     *)
(* evictions = k - lines_per_set, misses = k, hits = 0.                    *)
(***************************************************************************)
DistinctTagsOneSet ==
    /\ \A k \in 1 .. Len(trace) :
        /\ WellFramed(trace[k])
        /\ HasHexAddress(trace[k])
        /\ OpOfLine(trace[k]) \in {"L", "S"}
        /\ IndexOfLine(trace[k]) = IndexOfLine(trace[1])
    /\ \A j, k \in 1 .. Len(trace) : j # k => TagOfLine(trace[j]) # TagOfLine(trace[k])

ExactLRU ==
    (pc = "fgets" /\ Live /\ Len(trace) > lines_per_set /\ DistinctTagsOneSet) =>
        /\ TagsOf(heap, cache.sets[IndexOfLine(trace[1])]) =
              [k \in 1 .. lines_per_set |->
                  TagOfLine(trace[Len(trace) - lines_per_set + k])]
        /\ evictions = Len(trace) - lines_per_set
        /\ misses = Len(trace)
        /\ hits = 0

\* three distinct tags have gone through a set of two lines
ExactLRUWitness ==
    /\ pc = "fgets"
    /\ Live
    /\ lines_per_set = 2
    /\ Len(trace) = 3
    /\ DistinctTagsOneSet
    /\ evictions = 1

ModifySemantics ==
    /\ (pc = "simulate_single_access" /\ operation = "M" /\ calls = 1) =>
          find(heap, cache.sets[curr_set], tag) # NULL
    /\ (pc = "fgets" /\ rec.valid /\ operation = "M") =>
          /\ acc.valid /\ acc.found
          /\ ~rec.found => (misses = rec.misses + 1 /\ hits = rec.hits + 1)
    /\ \A l \in GoodLines :
          (OpOfLine(l) = "M" /\ RunOn(<<l>>) /\ status = 0) =>
              out = <<Summary(1, 1, 0)>>

\* an M record on a line that was not resident has evicted the only line of
\* a set of one line, and is complete
ModifyWitness ==
    /\ pc = "fgets"
    /\ rec.valid
    /\ operation = "M"
    /\ ~rec.found
    /\ lines_per_set = 1
    /\ evictions = rec.evictions + 1

(***************************************************************************)
(* C6. Scenario A.  As stated: with -s 1 -E 1 -b 0, a run on the trace     *)
(* "L 0,1", "L 10,1" prints hits:0 misses:2 evictions:0.                   *)
(***************************************************************************)
TraceA == << Line("L", <<"0">>), Line("L", <<"1", "0">>) >>

ScenarioA_AsStated ==
    (/\ set_bit_count = 1 /\ lines_per_set = 1 /\ offset_bit_count = 0 /\ t
     /\ RunOn(TraceA))
        => out = <<Summary(0, 2, 0)>>

(***************************************************************************)
(* C6, amended.  With -s 1 -E 1 -b 0 the run ends in "Bad arguments" with  *)
(* status 1 before any line is read.  With -s 1 -E 1 -b 4, once "L 0,1"    *)
(* and "L 10,1" are replayed, sets 0 and 1 hold one line each, and a run   *)
(* on that trace whose file could be opened prints hits:0 misses:2         *)
(* evictions:0 with status 0.                                              *)
(***************************************************************************)
ScenarioA_Amended ==
    /\ (/\ set_bit_count = 1 /\ lines_per_set = 1 /\ offset_bit_count = 0
        /\ pc = "exit")
          => (status = 1 /\ out = << <<"Bad arguments">> >> /\ trace = <<>>)
    /\ (/\ set_bit_count = 1 /\ lines_per_set = 1 /\ offset_bit_count = 4 /\ t
        /\ pc = "fgets" /\ trace = TraceA)
          => /\ Len(Chain(heap, cache.sets[0])) = 1
             /\ Len(Chain(heap, cache.sets[1])) = 1
             /\ hits = 0 /\ misses = 2 /\ evictions = 0
    /\ (/\ set_bit_count = 1 /\ lines_per_set = 1 /\ offset_bit_count = 4 /\ t
        /\ RunOn(TraceA) /\ out # << <<"Bad file">> >>)
          => (status = 0 /\ out = <<Summary(0, 2, 0)>>)

\* the run of the amended scenario has ended
ScenarioA_Witness ==
    /\ set_bit_count = 1 /\ lines_per_set = 1 /\ offset_bit_count = 4
    /\ pc = "exit"
    /\ trace = TraceA
    /\ status = 0

(***************************************************************************)
(* C7. A line whose address is missing or not hexadecimal aborts the run:  *)
(* once such a line has reached simulate_operation, the run has ended with *)
(* status 1 and "Bad input", no access was made for the line and no        *)
(* summary is printed.                                                     *)
(***************************************************************************)
MalformedAddress(l) == WellFramed(l) /\ ~HasHexAddress(l)

MalformedAddressAborts ==
    \A k \in 1 .. Len(trace) :
        (MalformedAddress(trace[k]) /\ ~(k = Len(trace) /\ pc = "simulate_operation")) =>
            /\ k = Len(trace)
            /\ pc = "exit"
            /\ status = 1
            /\ Last(out) = <<"Bad input">>
            /\ NoSummary
            /\ acc.valid => (hits = acc.hits /\ misses = acc.misses)

(***************************************************************************)
(* C8. Framing errors are fatal: a line that does not end in a newline or  *)
(* is longer than BUFFER_SIZE is the last line read; the step that reads   *)
(* it ends the run with "Bad input" and status 1 and leaves the counters   *)
(* as they were, and the summary is not printed.                           *)
(***************************************************************************)
FramingError(l) == Len(l) = 0 \/ Last(l) # NL \/ Len(l) > BUFFER_SIZE

FramingErrorsFatal ==
    /\ [](\A k \in 1 .. Len(trace) :
            FramingError(trace[k]) =>
                /\ k = Len(trace)
                /\ pc = "exit"
                /\ status = 1
                /\ Last(out) = <<"Bad input">>
                /\ NoSummary)
    /\ [][(Len(trace') = Len(trace) + 1 /\ FramingError(Last(trace'))) =>
            /\ pc' = "exit"
            /\ out' = Append(out, <<"Bad input">>)
            /\ UNCHANGED counters]_vars

\* a line longer than the buffer has ended a run that had replayed records
FramingWitness ==
    /\ pc = "exit"
    /\ Len(trace) = 3
    /\ Len(Last(trace)) > BUFFER_SIZE
    /\ hits > 0
    /\ misses > 0
    /\ status = 1

(***************************************************************************)
(* C9. Validation: the run gets past the validation only with              *)
(* 1 <= set_bit_count <= 63, 1 <= offset_bit_count <= 63,                  *)
(* lines_per_set >= 1 and a trace path; otherwise it ends with "Bad        *)
(* arguments" and status 1, the cache not constructed and no line read;    *)
(* and no command line within the ranges ends with "Bad arguments".        *)
(***************************************************************************)
InRange ==
    /\ 1 <= set_bit_count /\ set_bit_count <= 63
    /\ 1 <= offset_bit_count /\ offset_bit_count <= 63
    /\ lines_per_set >= 1
    /\ t

Validated == pc \notin {"getopt", "validate"}

ConfigurationValidation ==
    /\ (Validated /\ ~InRange) =>
          /\ pc = "exit"
          /\ status = 1
          /\ out = << <<"Bad arguments">> >>
          /\ cache = NoCache
          /\ trace = <<>>
          /\ hits = 0 /\ misses = 0 /\ evictions = 0
    /\ (Validated /\ InRange) =>
          \A j \in 1 .. Len(out) : out[j] # <<"Bad arguments">>
    /\ (Live \/ trace # <<>> \/ pc \in {"fopen", "initialize"}) => InRange

\* -s 64 with everything else in range has been rejected
ValidationWitness ==
    /\ pc = "exit"
    /\ set_bit_count = 64
    /\ lines_per_set = 2
    /\ offset_bit_count = 4
    /\ t
    /\ out = << <<"Bad arguments">> >>

(***************************************************************************)
(* C10. Allocation failure is reported: when the malloc of the set array   *)
(* or of a new CacheLine has returned NULL, the run has ended with a       *)
(* diagnostic and status 1, and no summary is printed.                     *)
(***************************************************************************)
AllocationFailureReported ==
    failed \in {"cache", "line"} =>
        /\ pc = "exit"
        /\ status = 1
        /\ out # <<>>
        /\ NoSummary

(***************************************************************************)
(* C11. Other operations are ignored: the step of simulate_operation on a  *)
(* record whose operation is not L, S or M leaves hits, misses, evictions, *)
(* the sets and the lines as they were and goes back to fgets with the run *)
(* still going; and when such a record is complete, the counters and the   *)
(* set it names are as the record found them.                              *)
(***************************************************************************)
Recognised == {"L", "S", "M"}

OtherOperationsIgnored ==
    /\ []((pc = "fgets" /\ rec.valid /\ operation \notin Recognised) =>
            /\ hits = rec.hits /\ misses = rec.misses /\ evictions = rec.evictions
            /\ TagsOf(heap, cache.sets[curr_set]) = rec.tags
            /\ status = Running)
    /\ [][(pc = "simulate_operation" /\ operation' \notin Recognised) =>
            /\ UNCHANGED << counters, cache, heap, out, status >>
            /\ pc' = "fgets"]_vars

\* an I record has been replayed on a set that holds a line
IgnoredWitness ==
    /\ pc = "fgets"
    /\ rec.valid
    /\ operation = "I"
    /\ Len(rec.tags) > 0
    /\ misses > 0

(***************************************************************************)
(* C12. Teardown: a run that has constructed the cache ends with the set   *)
(* array freed and no CacheLine left allocated.  A line is allocated only  *)
(* by a miss; it is freed only by an eviction, which frees the one line it *)
(* unlinked, or by cleanup, which frees the misses - evictions lines that  *)
(* are allocated then, each of them linked once in one set.  While the     *)
(* cache exists, the pointers of the sets and of the linked lines lead to  *)
(* allocated lines only, and nothing happens after free(cache).            *)
(***************************************************************************)
Allocated(h) == { n \in Nodes : h[n].live }

CellsOf(q) == { q[k] : k \in 1 .. Len(q) }

Linked == UNION { CellsOf(Chain(heap, cache.sets[i])) : i \in SetIds }

\* the line simulate_single_access holds and has not pushed yet
InHand == IF pc \in {"evict", "push"} THEN {line} ELSE {}

NoDangling ==
    /\ \A i \in SetIds :
          {cache.sets[i].lru, cache.sets[i].mru} \subseteq {NULL} \cup Allocated(heap)
    /\ \A n \in Linked : {heap[n].prev, heap[n].next} \subseteq {NULL} \cup Linked

LinesOwnedOnce ==
    /\ \A i \in SetIds :
          Cardinality(CellsOf(Chain(heap, cache.sets[i]))) = Len(Chain(heap, cache.sets[i]))
    /\ \A i, j \in SetIds :
          i # j => CellsOf(Chain(heap, cache.sets[i])) \cap
                   CellsOf(Chain(heap, cache.sets[j])) = {}
    /\ Allocated(heap) = Linked \cup InHand
    /\ Linked \cap InHand = {}

DeterministicTeardown ==
    /\ [](/\ Live => (NoDangling /\ LinesOwnedOnce /\ pc # "exit")
          /\ cache.p = "freed" => (pc = "exit" /\ status \in {0, 1})
          /\ pc = "exit" => Allocated(heap) = {})
    /\ [][/\ (Live /\ pc' = "exit") =>
                /\ cache'.p = "freed"
                /\ Cardinality(Allocated(heap)) = misses - evictions
                /\ Allocated(heap) = Linked
          /\ Allocated(heap') \ Allocated(heap) # {} =>
                /\ misses' = misses + 1
                /\ Cardinality(Allocated(heap') \ Allocated(heap)) = 1
          /\ (Allocated(heap) \ Allocated(heap') # {} /\ pc' # "exit") =>
                /\ evictions' = evictions + 1
                /\ Allocated(heap) \ Allocated(heap') = {Victim(cache.sets[curr_set])}
          /\ cache.p = "freed" => UNCHANGED vars]_vars

\* a malformed line has ended a run that had evicted a line and held another
TeardownWitness ==
    /\ pc = "exit"
    /\ cache.p = "freed"
    /\ status = 1
    /\ evictions = 1
    /\ misses = 2

(***************************************************************************)
(* C13. Address routing: with the configuration the validation let pass,   *)
(* for 64-bit addresses a, the bits of the index (a >> b) & ~mask are the  *)
(* bits b .. b + s - 1 of a, so the index is (a >> b) mod 2^s and is less  *)
(* than set_count; two addresses get the same index and the same tag       *)
(* exactly when they agree on every bit from b upwards.  During the        *)
(* replay curr_set is that index of the address of the line, it is the     *)
(* index of a set of the cache, and no step changes the fields, the lines  *)
(* or the order of a set other than curr_set.                              *)
(***************************************************************************)
\* 0, 1, 2^63, 2^64 - 1, and addresses with bits around the fields
Addresses64 ==
    { {}, {0}, {63}, Bits, {1, 4}, {0, 1, 2, 3}, {4, 5, 6, 62},
      Converted[<<"a", "b", "c">>], Bits \ {0, 4}, {5, 63} }

\* address & ~mask as a set of bits, address being the shifted address
IndexBits(a, s, b) == BlockAddress(a, b) \ Mask(s)

\* the bits of a from bit b upwards
AboveOffset(a, b) == { k \in a : k >= b }

Decoding(s, b) ==
    /\ \A a \in Addresses64 :
          /\ IndexBits(a, s, b) = { k \in 0 .. (s - 1) : (k + b) \in a }
          /\ \A k \in IndexBits(a, s, b) : \A j \in set_count : k < j
    /\ \A a1, a2 \in Addresses64 :
          (/\ IndexBits(a1, s, b) = IndexBits(a2, s, b)
           /\ TagOf(a1, s, b) = TagOf(a2, s, b))
              <=> AboveOffset(a1, b) = AboveOffset(a2, b)

\* the address simulate_operation converted for the line that is replayed
ReplayedAddress == { a \in { Converted[g] : g \in AddressStrings } :
                        /\ TagOf(a, set_bit_count, offset_bit_count) = tag
                        /\ IndexOf(a, set_bit_count, offset_bit_count) = curr_set }

AddressRouting ==
    /\ [](/\ pc = "fopen" => Decoding(set_bit_count, offset_bit_count)
          /\ (Live /\ rec.valid /\ pc # "simulate_operation") =>
                /\ curr_set \in SetIds
                /\ SetIds = 0 .. (Pow2(set_bit_count) - 1)
                /\ HasHexAddress(Last(trace)) =>
                      /\ ToU64(curr_set) =
                            { k \in 0 .. (set_bit_count - 1) :
                                (k + offset_bit_count) \in AddressOfLine(Last(trace)) }
                      /\ tag = { k \in Shr(AddressOfLine(Last(trace)), offset_bit_count) :
                                    k >= set_bit_count })
    /\ [][(Live /\ Live') =>
            \A i \in SetIds \ {curr_set} :
                /\ cache'.sets[i] = cache.sets[i]
                /\ Chain(heap', cache'.sets[i]) = Chain(heap, cache.sets[i])
                /\ \A n \in CellsOf(Chain(heap, cache.sets[i])) : heap'[n] = heap[n]]_vars

\* an access to the last of four sets is complete while another set holds
\* a line
RoutingWitness ==
    /\ AccessDone
    /\ set_bit_count = 2
    /\ curr_set = 3
    /\ \E i \in SetIds \ {curr_set} : cache.sets[i].size > 0

(***************************************************************************)
(* C14. Eviction rule: once an access that did not find its tag is         *)
(* complete, misses is one more than before and hits is as before, and the *)
(* tag is the most recently used of the set.  If the set held              *)
(* lines_per_set lines, evictions is one more than before and the set      *)
(* holds the lines it held without the least recently used one, followed   *)
(* by the new tag; if it held fewer, evictions is as before and the set    *)
(* holds all the lines it held, followed by the new tag.  The step that    *)
(* counts an eviction unlinks the line at lru, and only that line.         *)
(***************************************************************************)
HeldBefore == { acc.tags[k] : k \in 1 .. Len(acc.tags) }

EvictionRule ==
    /\ []((AccessDone /\ ~acc.found) =>
            LET now == TagsOf(heap, cache.sets[curr_set])
                full == Len(acc.tags) = lines_per_set
            IN  /\ tag \notin HeldBefore
                /\ Len(acc.tags) <= lines_per_set
                /\ misses = acc.misses + 1
                /\ hits = acc.hits
                /\ evictions = (IF full THEN acc.evictions + 1 ELSE acc.evictions)
                /\ now = (IF full THEN Tail(acc.tags) ELSE acc.tags) \o <<tag>>
                /\ heap[cache.sets[curr_set].mru].tag = tag)
    /\ [][evictions' # evictions =>
            /\ evictions' = evictions + 1
            /\ cache.sets[curr_set].size = lines_per_set
            /\ Chain(heap', cache'.sets[curr_set]) = Tail(Chain(heap, cache.sets[curr_set]))
            /\ ~heap'[Head(Chain(heap, cache.sets[curr_set]))].live]_vars

\* a miss in a full set of two lines has evicted the older one and is
\* complete
EvictionWitness ==
    /\ AccessDone
    /\ ~acc.found
    /\ lines_per_set = 2
    /\ Len(acc.tags) = 2
    /\ evictions = acc.evictions + 1

(***************************************************************************)
(* C15. Access accounting: a completed L or S record has added 1 to        *)
(* hits + misses, a completed M record 2, any other record 0; between two  *)
(* records of a trace whose lines all hold an operation and a hexadecimal  *)
(* address, hits + misses is the number of L and S records read plus twice *)
(* the number of M records read; the counters are 0 until the first line   *)
(* is read, and no step decreases one of them.                             *)
(***************************************************************************)
AccessesOf(op) == IF op \in {"L", "S"} THEN 1 ELSE IF op = "M" THEN 2 ELSE 0

RECURSIVE AccessesIn(_)
AccessesIn(q) ==
    IF q = <<>> THEN 0 ELSE AccessesOf(OpOfLine(Head(q))) + AccessesIn(Tail(q))

WellFormedTrace ==
    \A k \in 1 .. Len(trace) : WellFramed(trace[k]) /\ HasHexAddress(trace[k])

AccessAccounting ==
    /\ [](/\ (pc = "fgets" /\ rec.valid) =>
                hits + misses = rec.hits + rec.misses + AccessesOf(operation)
          /\ (pc = "fgets" /\ WellFormedTrace) => hits + misses = AccessesIn(trace)
          /\ trace = <<>> => (hits = 0 /\ misses = 0 /\ evictions = 0))
    /\ [][hits' >= hits /\ misses' >= misses /\ evictions' >= evictions]_vars

\* two M records and a load or store have been replayed
AccountingWitness ==
    /\ pc = "fgets"
    /\ Len(trace) = 3
    /\ WellFormedTrace
    /\ \E k \in 1 .. 3 : OpOfLine(trace[k]) \in {"L", "S"}
    /\ hits + misses = 5
    /\ evictions > 0

(***************************************************************************)
(* C16. The list of a set: whenever no access is in progress, in every set *)
(* the lines reached from lru along next are pairwise distinct and size in *)
(* number, the last of them is mru and its next is null, the prev of the   *)
(* first is null and the prev of each other line is the line before it,    *)
(* and lru and mru are null when size is 0 and only then.  Once an access  *)
(* or a record of a trace whose lines all hold an operation and a          *)
(* hexadecimal address is complete, every line of a set was accessed by a  *)
(* record read, and the lines are listed from lru in strictly increasing   *)
(* order of the last record that accessed them.                            *)
(***************************************************************************)
WellLinked(h, set) ==
    LET c == Chain(h, set)
    IN  /\ Cardinality(CellsOf(c)) = Len(c)
        /\ Len(c) = set.size
        /\ (set.size = 0) <=> (set.lru = NULL /\ set.mru = NULL)
        /\ (set.lru = NULL) <=> (set.mru = NULL)
        /\ c # <<>> =>
              /\ c[1] = set.lru
              /\ Last(c) = set.mru
              /\ h[set.mru].next = NULL
              /\ h[set.lru].prev = NULL
              /\ \A k \in 2 .. Len(c) : h[c[k]].prev = c[k - 1]
              /\ \A k \in 1 .. (Len(c) - 1) : h[c[k]].next = c[k + 1]

\* the records of the trace that access the line tg of set i
AccessesTo(i, tg) ==
    { k \in 1 .. Len(trace) :
        /\ AccessesOf(OpOfLine(trace[k])) > 0
        /\ IndexOfLine(trace[k]) = i
        /\ TagOfLine(trace[k]) = tg }

LastAccessTo(i, tg) ==
    CHOOSE k \in AccessesTo(i, tg) : \A j \in AccessesTo(i, tg) : j <= k

OrderedByRecency(i) ==
    LET tags == TagsOf(heap, cache.sets[i])
    IN  /\ \A k \in 1 .. Len(tags) : AccessesTo(i, tags[k]) # {}
        /\ \A j, k \in 1 .. Len(tags) :
              j < k => LastAccessTo(i, tags[j]) < LastAccessTo(i, tags[k])

NoAccessInProgress ==
    Live /\ pc \in {"fgets", "simulate_operation", "simulate_single_access"}

RecencyOrderedList ==
    /\ NoAccessInProgress => \A i \in SetIds : WellLinked(heap, cache.sets[i])
    /\ (/\ Live
        /\ WellFormedTrace
        /\ pc = "fgets" \/ (pc = "simulate_single_access" /\ acc.valid))
          => \A i \in SetIds : OrderedByRecency(i)

\* a hit on the older of the two lines of a set has reordered them
RecencyWitness ==
    /\ pc = "fgets"
    /\ Live
    /\ WellFormedTrace
    /\ Len(trace) = 3
    /\ acc.found
    /\ Len(acc.tags) = 2
    /\ acc.tags[1] = tag
    /\ operation \in {"L", "S"}

(***************************************************************************)
(* C17. Overflow validation.  The exact product sizeof(CacheSet) * 2^s has *)
(* the bits of sizeof(CacheSet) moved up by s; it fits uint64_t when all   *)
(* of them are below bit 64.  For every s in 1 .. 63, (uint64_t) 1 << s is *)
(* 2^s, the test of initialize finds an overflow exactly when the product  *)
(* does not fit, and bytes_to_allocate is the exact product when it fits.  *)
(* In a run, set_count is 2^set_bit_count once the validation has passed,  *)
(* the cache exists only if the product fits and then has 2^set_bit_count  *)
(* sets, and when the product does not fit the run has ended at initialize *)
(* with "Bad initialize" and status 1, no cache and no line read.          *)
(***************************************************************************)
ExactProduct(s) == { k + s : k \in ToU64(SizeofCacheSet) }

Fits(s) == \A k \in ExactProduct(s) : k < WORD

OverflowTest ==
    \A s \in 1 .. (WORD - 1) :
        LET sc == Shl(ToU64(1), s)
        IN  /\ sc = {s}
            /\ Overflow(sc) <=> ~Fits(s)
            /\ Fits(s) => bytes_to_allocate(sc) = ExactProduct(s)

InitializeFailed == pc = "exit" /\ out # <<>> /\ Last(out) = <<"Bad initialize">>

\* the run has been through initialize
Initialized ==
    \/ pc \notin {"getopt", "validate", "fopen", "initialize", "exit"}
    \/ pc = "exit" /\ cache # NoCache
    \/ InitializeFailed

OverflowEffects ==
    /\ pc = "initialize" => OverflowTest
    /\ pc \in {"fopen", "initialize"} => set_count = {set_bit_count}
    /\ Live =>
          /\ Fits(set_bit_count)
          /\ set_count = {set_bit_count}
          /\ SetIds = 0 .. (Pow2(set_bit_count) - 1)
    /\ (Initialized /\ ~Fits(set_bit_count)) =>
          /\ InitializeFailed
          /\ status = 1
          /\ out = << <<"Bad initialize">> >>
          /\ cache = NoCache
          /\ trace = <<>>
          /\ hits = 0 /\ misses = 0 /\ evictions = 0
    /\ InitializeFailed => (status = 1 /\ cache = NoCache /\ trace = <<>>)

(***************************************************************************)
(* C17, as stated: initialize fails exactly when the product does not fit. *)
(***************************************************************************)
OverflowValidation_AsStated ==
    /\ OverflowEffects
    /\ InitializeFailed <=> (Initialized /\ ~Fits(set_bit_count))

(***************************************************************************)
(* C17, amended: initialize fails exactly when the product does not fit or *)
(* the malloc of the set array returns NULL.                               *)
(***************************************************************************)
OverflowValidation_Amended ==
    /\ OverflowEffects
    /\ InitializeFailed <=> (Initialized /\ (~Fits(set_bit_count) \/ failed = "cache"))

\* -s 60, the least s whose product does not fit, has ended at initialize
OverflowWitness ==
    /\ InitializeFailed
    /\ set_bit_count = 60
    /\ failed = "none"

(***************************************************************************)
(* C18. Termination with one outcome: until the run has ended main has a   *)
(* step to take, the status is not set and no summary is printed; lines    *)
(* are read one at a time, each after the record before it is complete,    *)
(* and the trace only grows at its end; a run with a valid configuration   *)
(* ends either with status 0, every line read having been replayed and the *)
(* output being the summary of the counters alone, or with status 1 and    *)
(* the output being one diagnostic alone; the step that ends the run       *)
(* leaves the counters as the last record left them.                       *)
(***************************************************************************)
SuccessOutcome ==
    /\ status = 0
    /\ out = << Summary(hits, misses, evictions) >>
    /\ \A k \in 1 .. Len(trace) : ~BadInput(fgets(trace[k]))

FailureOutcome ==
    /\ status = 1
    /\ Len(out) = 1
    /\ out[1] \in Diagnostics

OneOutcome ==
    /\ [](/\ pc # "exit" => (status = Running /\ NoSummary /\ ENABLED Next)
          /\ (pc = "exit" /\ InRange) => (SuccessOutcome \/ FailureOutcome))
    /\ [][/\ trace' # trace =>
                /\ pc = "fgets"
                /\ Len(trace') = Len(trace) + 1
                /\ IsPrefix(trace, trace')
          /\ pc' = "exit" => UNCHANGED counters]_vars

(***************************************************************************)
(* C19. Line conservation: whenever no access is in progress, evictions is *)
(* at most misses, and the number of lines linked in the sets, which is    *)
(* the number of lines allocated, is misses - evictions.  A step that      *)
(* counts a miss allocates one line and frees none, and a step that counts *)
(* an eviction frees one line and allocates none.                          *)
(***************************************************************************)
RECURSIVE ResidentFrom(_)
ResidentFrom(ids) ==
    IF ids = {} THEN 0
    ELSE LET i == CHOOSE x \in ids : TRUE
         IN  Len(Chain(heap, cache.sets[i])) + ResidentFrom(ids \ {i})

ResidentLines == ResidentFrom(SetIds)

LineConservation ==
    /\ [](NoAccessInProgress =>
            /\ evictions <= misses
            /\ ResidentLines = misses - evictions
            /\ Cardinality(Allocated(heap)) = misses - evictions)
    /\ [][/\ misses' # misses =>
                /\ Cardinality(Allocated(heap') \ Allocated(heap)) = 1
                /\ Allocated(heap) \subseteq Allocated(heap')
          /\ evictions' # evictions =>
                /\ Cardinality(Allocated(heap) \ Allocated(heap')) = 1
                /\ Allocated(heap') \subseteq Allocated(heap)]_vars

\* three misses and one eviction have left a line in each of two sets
ConservationWitness ==
    /\ NoAccessInProgress
    /\ misses = 3
    /\ evictions = 1
    /\ Cardinality({ i \in SetIds : cache.sets[i].size > 0 }) = 2

(***************************************************************************)
(* C20. Inclusion across associativity.  ReplayTrace is the replay of a    *)
(* trace by simulate_operation and simulate_single_access from the state   *)
(* initialize leaves, with a given number of lines per set.  Between two   *)
(* records of a run with lines_per_set = E, the replay with E is the state *)
(* of the run, and in the replay of the same trace with E + 1 every set    *)
(* holds every tag the set holds in the run, misses is at most the misses  *)
(* of the run, and hits is at least the hits of the run.                   *)
(***************************************************************************)
\* the state of a run after initialize
FreshRun(s) ==
    [heap |-> [n \in {NULL} \cup Nodes |-> FreeCell],
     sets |-> ZeroedSets(Shl(ToU64(1), s)).sets,
     hits |-> 0, misses |-> 0, evictions |-> 0]

\* simulate_single_access(cache + i, tg) from the state st
ReplaySingleAccess(st, i, tg, E) ==
    LET match == find(st.heap, st.sets[i], tg)
    IN  IF match = NULL
        THEN LET new_line == malloc(st.heap)
                 h1 == [st.heap EXCEPT ![new_line] =
                          [live |-> TRUE, tag |-> tg, prev |-> Uninit, next |-> Uninit]]
                 full == SetFull(st.sets[i], E)
                 evicted == Victim(st.sets[i])
                 e == evict(h1, st.sets[i], evicted)
                 h2 == IF full THEN free(e.heap, evicted) ELSE h1
                 set2 == IF full THEN e.set ELSE st.sets[i]
                 r == push(h2, set2, new_line)
             IN  [heap |-> r.heap,
                  sets |-> [st.sets EXCEPT ![i] = r.set],
                  hits |-> st.hits,
                  misses |-> st.misses + 1,
                  evictions |-> IF full THEN st.evictions + 1 ELSE st.evictions]
        ELSE LET e == evict(st.heap, st.sets[i], match)
                 r == push(e.heap, e.set, match)
             IN  [heap |-> r.heap,
                  sets |-> [st.sets EXCEPT ![i] = r.set],
                  hits |-> st.hits + 1,
                  misses |-> st.misses,
                  evictions |-> st.evictions]

\* simulate_operation(l) from the state st
ReplayOperation(st, l, s, b, E) ==
    LET address == AddressOfLine(l)
        tg == TagOf(address, s, b)
        i == IndexOf(address, s, b)
        n == CallsOf(OpOfLine(l))
        once == ReplaySingleAccess(st, i, tg, E)
    IN  IF n = 0 THEN st
        ELSE IF n = 1 THEN once
        ELSE ReplaySingleAccess(once, i, tg, E)

\* the loop of main over the lines of q
RECURSIVE ReplayTrace(_, _, _, _)
ReplayTrace(q, s, b, E) ==
    IF q = <<>> THEN FreshRun(s)
    ELSE ReplayOperation(ReplayTrace(SubSeq(q, 1, Len(q) - 1), s, b, E),
                         Last(q), s, b, E)

TagSet(h, set) == { TagsOf(h, set)[k] : k \in 1 .. Len(TagsOf(h, set)) }

Wider == ReplayTrace(trace, set_bit_count, offset_bit_count, lines_per_set + 1)

SameWidth == ReplayTrace(trace, set_bit_count, offset_bit_count, lines_per_set)

LRUInclusion ==
    (pc = "fgets" /\ Live /\ WellFormedTrace) =>
        /\ SameWidth.heap = heap
        /\ SameWidth.sets = cache.sets
        /\ SameWidth.hits = hits
        /\ SameWidth.misses = misses
        /\ SameWidth.evictions = evictions
        /\ \A i \in SetIds :
              TagSet(heap, cache.sets[i]) \subseteq TagSet(Wider.heap, Wider.sets[i])
        /\ Wider.misses <= misses
        /\ Wider.hits >= hits

\* on a trace of five records, the run with two lines per set has missed
\* where the replay with three lines per set has hit, and both have evicted
InclusionWitness ==
    /\ pc = "fgets"
    /\ Live
    /\ lines_per_set = 2
    /\ Len(trace) = 5
    /\ Wider.evictions > 0
    /\ Wider.misses < misses
    /\ \E i \in SetIds :
          TagSet(heap, cache.sets[i]) # TagSet(Wider.heap, Wider.sets[i])

====
